---- MODULE Spec2Model ----
(***************************************************************************)
(* Rule lifecycle and do-not-scan list generation of donotscan_manager.py. *)
(*                                                                         *)
(* The stored state is the `rules` table (with each rule's activity rows)  *)
(* and the wall-clock date.  The operations are the methods of class Rules *)
(* (add, get, list, activate, deactivate, trueup, gen_donotscan).          *)
(*                                                                         *)
(* Reading of the source: `filter(Rule.id = rule_id)` (lines 264, 297,     *)
(* 307, 317) is read as the equality filter on the primary key, and the    *)
(* class attributes from_addr / smtp_serv / smtp_port (lines 159-161) as   *)
(* already resolved configuration values.  Everything else is modelled as  *)
(* it executes, including names the code uses but never defines.           *)
(***************************************************************************)
EXTENDS Integers, Sequences, FiniteSets, TLC

(***************************************************************************)
(* Bounds of the model.                                                    *)
(***************************************************************************)
MaxRules == 2
NumPasses == 2
MaxTrail == 4

(***************************************************************************)
(* datetime.date: a (year, month, day) triple, ordered as that triple, and *)
(* date + timedelta(k) computed through the proleptic Gregorian ordinal.   *)
(***************************************************************************)
MkDate(y, m, d) == [year |-> y, month |-> m, day |-> d]

None == [none |-> TRUE]

IsLeap(y) == (y % 4 = 0) /\ ((y % 100 # 0) \/ (y % 400 = 0))

DaysInMonth(y, m) ==
  IF m = 2 THEN (IF IsLeap(y) THEN 29 ELSE 28)
  ELSE IF m \in {4, 6, 9, 11} THEN 30 ELSE 31

RECURSIVE DaysBeforeMonth(_, _)
DaysBeforeMonth(y, m) ==
  IF m = 1 THEN 0 ELSE DaysBeforeMonth(y, m - 1) + DaysInMonth(y, m - 1)

DaysBeforeYear(y) ==
  (y - 1) * 365 + ((y - 1) \div 4) - ((y - 1) \div 100) + ((y - 1) \div 400)

ToOrdinal(dt) ==
  DaysBeforeYear(dt.year) + DaysBeforeMonth(dt.year, dt.month) + dt.day

FromOrdinal(n) ==
  LET n0   == n - 1
      n400 == n0 \div 146097
      r400 == n0 % 146097
      n100 == r400 \div 36524
      r100 == r400 % 36524
      n4   == r100 \div 1461
      r4   == r100 % 1461
      n1   == r4 \div 365
      r1   == r4 % 365
      y    == n400 * 400 + 1 + n100 * 100 + n4 * 4 + n1
  IN IF n1 = 4 \/ n100 = 4 THEN MkDate(y - 1, 12, 31)
     ELSE LET m0 == (r1 + 50) \div 32
              p0 == DaysBeforeMonth(y, m0)
              m  == IF p0 > r1 THEN m0 - 1 ELSE m0
              p  == IF p0 > r1 THEN p0 - DaysInMonth(y, m0 - 1) ELSE p0
          IN MkDate(y, m, r1 - p + 1)

\* date + datetime.timedelta(k)
AddDays(dt, k) == FromOrdinal(ToOrdinal(dt) + k)

\* a >= b on datetime.date
DateGE(a, b) ==
  \/ a.year > b.year
  \/ a.year = b.year /\ a.month > b.month
  \/ a.year = b.year /\ a.month = b.month /\ a.day >= b.day

(***************************************************************************)
(* Inputs: the dates the clock takes (in order), the expirations a caller  *)
(* passes explicitly, and the rule strings.  A rule string is a sequence   *)
(* of characters without a line break (raw_input, line 406); it may be     *)
(* empty.                                                                  *)
(***************************************************************************)
Days == << MkDate(2023, 6, 30), MkDate(2023, 12, 25), MkDate(2024, 2, 20) >>

Expirations == { MkDate(2023, 12, 25) }

Patterns == { << >>, << "a" >> }

Tickets == { "T1", "T2" }

Applications == { "App1", "App2" }

Passes == 1 .. NumPasses

VARIABLES
  rules,    \* the rules table, in primary-key order: rules[i].id = i
  today,    \* datetime.date.today()
  pc,       \* per gen_donotscan call: where it stands
  snap,     \* per call: the list self.list() returned (detached copies)
  idx,      \* per call: position of the for loop in snap
  out,      \* per call: the string donotscan, as a sequence of characters
  sent,     \* per call: the notifications attempted, << [id, status] >>
  last,     \* the engine call made last: its arguments and its outcome
  prevRun   \* history: the gen_donotscan call that finished last, while no
            \* other engine call has been made or has written since

vars == << rules, today, pc, snap, idx, out, sent, last, prevRun >>

passVars == << pc, snap, idx, out, sent >>

Ids == 1 .. Len(rules)

(***************************************************************************)
(* class Activity and class Rule.                                          *)
(***************************************************************************)
Activity(event, info) == [event |-> event, info |-> info]

\* Variant: the two defaults taken the wrong way round.
RuleInit_Swapped(rule, ticket, application, expiration, permanent, now) ==
  [ rule       |-> rule,
    ticket     |-> ticket,
    application |-> application,
    permanent  |-> permanent,
    active     |-> TRUE,
    expiration |-> IF expiration # None THEN expiration
                   ELSE IF ~permanent THEN MkDate(now.year, 12, 31)
                   ELSE AddDays(now, 14),
    activity   |-> << Activity("Created", None) >> ]

\* Variant: no default, the argument is stored as given.
RuleInit_NoDefault(rule, ticket, application, expiration, permanent, now) ==
  [ rule       |-> rule,
    ticket     |-> ticket,
    application |-> application,
    permanent  |-> permanent,
    active     |-> TRUE,
    expiration |-> expiration,
    activity   |-> << Activity("Created", None) >> ]

\* Rule.__init__; the id is assigned by the store on add.  The timestamp
\* `created` (line 94) is written here and read by no operation: the model
\* keeps the creation date with the call that created the rule (last.date).
\* Of the free-form fields, ticket and application are kept (search reads
\* them); name, email and reason only fill the notification text.
RuleInit(rule, ticket, application, expiration, permanent, now) ==
  [ rule       |-> rule,
    ticket     |-> ticket,
    application |-> application,
    permanent  |-> permanent,
    active     |-> TRUE,
    expiration |-> IF expiration # None THEN expiration
                   ELSE IF permanent THEN MkDate(now.year, 12, 31)
                   ELSE AddDays(now, 14),
    activity   |-> << Activity("Created", None) >> ]

\* date.isoformat(): YYYY-MM-DD, as a sequence of characters
Digit(n) == << "0", "1", "2", "3", "4", "5", "6", "7", "8", "9" >>[n + 1]

RECURSIVE Pad(_, _)
Pad(n, width) ==
  IF width = 0 THEN << >> ELSE Append(Pad(n \div 10, width - 1), Digit(n % 10))

IsoFormat(d) ==
  Pad(d.year, 4) \o << "-" >> \o Pad(d.month, 2) \o << "-" >> \o Pad(d.day, 2)

\* Variant: a transition that changes nothing is not logged.
RuleReactivate_Quiet(r) ==
  IF r.active THEN r
  ELSE [r EXCEPT !.active = TRUE,
                 !.activity = Append(@, Activity("Re-Enabled", None))]

\* Rule.reactivate
RuleReactivate(r) ==
  [r EXCEPT !.active = TRUE,
            !.activity = Append(@, Activity("Re-Enabled", None))]

\* Variant: the trail is assigned, not appended to.
RuleDeactivate_Resets(r) ==
  [r EXCEPT !.active = FALSE,
            !.activity = << Activity("Disabled", None) >>]

\* Rule.deactivate
RuleDeactivate(r) ==
  [r EXCEPT !.active = FALSE,
            !.activity = Append(@, Activity("Disabled", None))]

\* Variant: renewing also switches the rule back on.
RuleTrueUp_Reenables(r, expiration) ==
  [r EXCEPT !.expiration = expiration,
            !.active = TRUE,
            !.activity = Append(@, Activity("Modified",
                           << "Expiration set to " >> \o IsoFormat(expiration)))]

\* Rule.true_up
RuleTrueUp(r, expiration) ==
  [r EXCEPT !.expiration = expiration,
            !.activity = Append(@, Activity("Modified",
                           << "Expiration set to " >> \o IsoFormat(expiration)))]

(***************************************************************************)
(* Initial state: an empty database, no call in progress.                  *)
(***************************************************************************)
NoCall == [op |-> "none", id |-> 0, expiration |-> None, date |-> None,
           active |-> FALSE, inactive |-> FALSE, args |-> << >>,
           outcome |-> "none", result |-> {}]

NoRun == [valid |-> FALSE, out |-> << >>, date |-> None]

Init ==
  /\ rules = << >>
  /\ today = Days[1]
  /\ pc = [p \in Passes |-> "idle"]
  /\ snap = [p \in Passes |-> << >>]
  /\ idx = [p \in Passes |-> 0]
  /\ out = [p \in Passes |-> << >>]
  /\ sent = [p \in Passes |-> << >>]
  /\ last = NoCall
  /\ prevRun = NoRun

Idle == \A p \in Passes : pc[p] = "idle"

\* Any other engine call ends a succession of gen_donotscan calls.
Written == NoRun

(***************************************************************************)
(* The clock.  The date does not change while a call is running.           *)
(***************************************************************************)
Tick ==
  /\ Idle
  /\ \E i \in 1 .. (Len(Days) - 1) : today = Days[i] /\ today' = Days[i + 1]
  /\ UNCHANGED << rules, passVars, last, prevRun >>

(***************************************************************************)
(* Rules.add(Rule(...)): construct and persist, one transaction.           *)
(***************************************************************************)
AddRule(rule, ticket, application, expiration, permanent) ==
  /\ Len(rules) < MaxRules
  /\ LET obj == RuleInit(rule, ticket, application, expiration, permanent, today)
         id  == Len(rules) + 1
     IN /\ rules' = Append(rules, [id |-> id] @@ obj)
        /\ last' = [NoCall EXCEPT !.op = "add", !.id = id, !.outcome = "ok",
                                  !.expiration = expiration, !.date = today]
  /\ prevRun' = Written
  /\ UNCHANGED << today, passVars >>

(***************************************************************************)
(* Rules.get / Rules.list: queries.  query.first() is None when no row     *)
(* matches.                                                                *)
(***************************************************************************)
RulesGet(rs, rule_id) ==
  IF rule_id \in 1 .. Len(rs) THEN rs[rule_id] ELSE None

\* the values given to Rule.active.in_(...)
ListFilter(active, inactive) == { active, ~inactive }

RulesList(rs, active, inactive) ==
  SelectSeq(rs, LAMBDA r : r.active \in ListFilter(active, inactive))

IdsOf(list) == { list[i].id : i \in 1 .. Len(list) }

Get(rule_id) ==
  /\ LET x == RulesGet(rules, rule_id)
     IN last' = [NoCall EXCEPT !.op = "get", !.id = rule_id, !.outcome = "ok",
                               !.result = IF x = None THEN {} ELSE {x.id}]
  /\ prevRun' = Written
  /\ UNCHANGED << rules, today, passVars >>

List(active, inactive) ==
  /\ last' = [NoCall EXCEPT !.op = "list", !.active = active,
                            !.inactive = inactive, !.outcome = "ok",
                            !.result = IdsOf(RulesList(rules, active, inactive))]
  /\ prevRun' = Written
  /\ UNCHANGED << rules, today, passVars >>

(***************************************************************************)
(* Rules.search with keyword arguments `args`.  With none, neither `if`     *)
(* binds `query`, so                                                       *)
(* `query.all()` raises UnboundLocalError.  Otherwise the arguments are    *)
(* passed on as keywords to Query.filter (one argument) or to and_ (more), *)
(* and neither takes any keyword: TypeError.  Were they accepted, the rows *)
(* equal to every given value would be returned.                           *)
(***************************************************************************)
FilterKeywords == { }

Matches(r, args) == \A f \in DOMAIN args : r[f] = args[f]

RulesSearch(rs, args) ==
  IF DOMAIN args = { }
    THEN [outcome |-> "UnboundLocalError", result |-> { }]
  ELSE IF ~(DOMAIN args \subseteq FilterKeywords)
    THEN [outcome |-> "TypeError", result |-> { }]
  ELSE [outcome |-> "ok",
        result  |-> IdsOf(SelectSeq(rs, LAMBDA r : Matches(r, args)))]

Search(args) ==
  /\ LET x == RulesSearch(rules, args)
     IN last' = [NoCall EXCEPT !.op = "search", !.args = args,
                               !.outcome = x.outcome, !.result = x.result]
  /\ prevRun' = Written
  /\ UNCHANGED << rules, today, passVars >>

(***************************************************************************)
(* Rules.activate / Rules.deactivate: load the row, assign the flag,       *)
(* commit.  Assigning to an attribute of None raises AttributeError before *)
(* the commit.  Neither calls Rule.reactivate / Rule.deactivate, so no     *)
(* Activity row is added.                                                  *)
(***************************************************************************)
SetActive(rs, rule_id, flag) == [rs EXCEPT ![rule_id].active = flag]

RulesActivate(rs, rule_id) ==
  IF RulesGet(rs, rule_id) = None
    THEN [outcome |-> "AttributeError", rules |-> rs]
    ELSE [outcome |-> "ok", rules |-> SetActive(rs, rule_id, TRUE)]

\* Variant: the flag is assigned but the session is never committed.
RulesDeactivate_NoCommit(rs, rule_id) ==
  IF RulesGet(rs, rule_id) = None
    THEN [outcome |-> "AttributeError", rules |-> rs]
    ELSE [outcome |-> "ok", rules |-> rs]

\* Variant: the body of activate pasted into deactivate.
RulesDeactivate_Activates(rs, rule_id) ==
  IF RulesGet(rs, rule_id) = None
    THEN [outcome |-> "AttributeError", rules |-> rs]
    ELSE [outcome |-> "ok", rules |-> SetActive(rs, rule_id, TRUE)]

RulesDeactivate(rs, rule_id) ==
  IF RulesGet(rs, rule_id) = None
    THEN [outcome |-> "AttributeError", rules |-> rs]
    ELSE [outcome |-> "ok", rules |-> SetActive(rs, rule_id, FALSE)]

Activate(rule_id) ==
  /\ LET r == RulesActivate(rules, rule_id)
     IN /\ rules' = r.rules
        /\ last' = [NoCall EXCEPT !.op = "activate", !.id = rule_id,
                                  !.outcome = r.outcome]
        /\ prevRun' = Written
  /\ UNCHANGED << today, passVars >>

Deactivate(rule_id) ==
  /\ LET r == RulesDeactivate(rules, rule_id)
     IN /\ rules' = r.rules
        /\ last' = [NoCall EXCEPT !.op = "deactivate", !.id = rule_id,
                                  !.outcome = r.outcome]
        /\ prevRun' = Written
  /\ UNCHANGED << today, passVars >>

(***************************************************************************)
(* Rules.trueup: computes expiry, then evaluates the name `date`, which    *)
(* the module never binds (it imports datetime and sqlalchemy's Date):     *)
(* NameError, raised before the assignment and before the commit.          *)
(***************************************************************************)
ModuleNames == { "datetime", "Date", "DateTime", "Rule", "Activity", "Rules" }

TrueUpExpiry(d) ==
  IF d.month > 6 THEN MkDate(d.year + 1, 12, 31) ELSE MkDate(d.year, 12, 31)

\* Variant: the computed expiry is what gets assigned.
RulesTrueUp_Assigns(rs, rule_id, d) ==
  LET rule   == RulesGet(rs, rule_id)
      expiry == TrueUpExpiry(d)
  IN IF rule = None
       THEN [outcome |-> "AttributeError", rules |-> rs]
       ELSE [outcome |-> "ok", rules |-> [rs EXCEPT ![rule_id].expiration = expiry]]

RulesTrueUp(rs, rule_id, d) ==
  LET rule   == RulesGet(rs, rule_id)
      expiry == TrueUpExpiry(d)
  IN IF "date" \notin ModuleNames
       THEN [outcome |-> "NameError", rules |-> rs]
     ELSE IF rule = None
       THEN [outcome |-> "AttributeError", rules |-> rs]
     ELSE [outcome |-> "ok", rules |-> [rs EXCEPT ![rule_id].expiration = expiry]]

TrueUp(rule_id) ==
  /\ LET r == RulesTrueUp(rules, rule_id, today)
     IN /\ rules' = r.rules
        /\ last' = [NoCall EXCEPT !.op = "trueup", !.id = rule_id,
                                  !.outcome = r.outcome]
        /\ prevRun' = Written
  /\ UNCHANGED << today, passVars >>

(***************************************************************************)
(* Rules.__send_email.  The try block opens the SMTP connection (which     *)
(* raises when the server cannot be reached) and then evaluates            *)
(* self.to_addr, an attribute class Rules never sets; the bare except      *)
(* turns whatever was raised into the return value 'error'.                *)
(***************************************************************************)
RulesAttrs == { "from_addr", "smtp_serv", "smtp_port", "engine", "Session" }

SendEmailTry(connected) ==
  IF ~connected THEN "raised"
  ELSE IF "to_addr" \notin RulesAttrs THEN "raised"
  ELSE "sent"

\* Variant: no except clause, what the try block raises propagates.
SendEmail_NoExcept(connected) == SendEmailTry(connected)

SendEmail(connected) ==
  IF SendEmailTry(connected) = "raised" THEN "error" ELSE "sent"

(***************************************************************************)
(* Rules.gen_donotscan, one step per statement of the loop; do_generate    *)
(* prints what it returns.                                                 *)
(***************************************************************************)
\* Variant: a permanent rule is never taken for expired.
NotExpired_PermanentExempt(rule, d) ==
  rule.permanent \/ DateGE(rule.expiration, d)

\* Variant: > in place of >=.
NotExpired_Strict(rule, d) == DateGE(rule.expiration, d) /\ rule.expiration # d

\* rule.expiration >= datetime.date.today()
NotExpired(rule, d) == DateGE(rule.expiration, d)

\* Variant: the line break left out of the format string.
AppendLine_NoBreak(donotscan, rule) == donotscan \o rule.rule

\* donotscan += '%s\n' % rule.rule
AppendLine(donotscan, rule) == donotscan \o rule.rule \o << "\n" >>

\* donotscan = '' ; for rule in self.list():
GenList(p) ==
  /\ pc[p] = "idle"
  /\ snap' = [snap EXCEPT ![p] = RulesList(rules, TRUE, TRUE)]
  /\ idx' = [idx EXCEPT ![p] = 1]
  /\ out' = [out EXCEPT ![p] = << >>]
  /\ sent' = [sent EXCEPT ![p] = << >>]
  /\ pc' = [pc EXCEPT ![p] = "loop"]
  /\ last' = [NoCall EXCEPT !.op = "generate"]
  /\ UNCHANGED << rules, today, prevRun >>

\* if rule.active: if rule.expiration >= today: ... else: ...
GenVisit(p) ==
  /\ pc[p] = "loop"
  /\ idx[p] <= Len(snap[p])
  /\ LET rule == snap[p][idx[p]]
     IN IF rule.active
          THEN IF NotExpired(rule, today)
                 THEN /\ out' = [out EXCEPT ![p] = AppendLine(out[p], rule)]
                      /\ idx' = [idx EXCEPT ![p] = idx[p] + 1]
                      /\ pc' = pc
                 ELSE /\ pc' = [pc EXCEPT ![p] = "notify"]
                      /\ UNCHANGED << out, idx >>
          ELSE /\ idx' = [idx EXCEPT ![p] = idx[p] + 1]
               /\ UNCHANGED << out, pc >>
  /\ UNCHANGED << rules, today, snap, sent, last, prevRun >>

\* self.expiration_notification(rule.id)
GenNotify(p) ==
  /\ pc[p] = "notify"
  /\ \E connected \in BOOLEAN :
       LET rule_id == snap[p][idx[p]].id
           status  == IF RulesGet(rules, rule_id) = None
                        THEN "raised"
                        ELSE SendEmail(connected)
       IN /\ sent' = [sent EXCEPT
                        ![p] = Append(sent[p], [id |-> rule_id, status |-> status])]
          /\ pc' = [pc EXCEPT
                      ![p] = IF status = "raised" THEN "raised" ELSE "deactivate"]
  /\ UNCHANGED << rules, today, snap, idx, out, last, prevRun >>

\* self.deactivate(rule.id)
GenDeactivate(p) ==
  /\ pc[p] = "deactivate"
  /\ LET r == RulesDeactivate(rules, snap[p][idx[p]].id)
     IN /\ rules' = r.rules
        /\ prevRun' = IF \A q \in Passes \ {p} : pc[q] = "idle"
                         THEN prevRun
                         ELSE Written
        /\ IF r.outcome = "ok"
             THEN /\ idx' = [idx EXCEPT ![p] = idx[p] + 1]
                  /\ pc' = [pc EXCEPT ![p] = "loop"]
             ELSE /\ idx' = idx
                  /\ pc' = [pc EXCEPT ![p] = "raised"]
  /\ UNCHANGED << today, snap, out, sent, last >>

\* return donotscan
GenReturn(p) ==
  /\ pc[p] = "loop"
  /\ idx[p] > Len(snap[p])
  /\ pc' = [pc EXCEPT ![p] = "done"]
  /\ UNCHANGED << rules, today, snap, idx, out, sent, last, prevRun >>

\* CLI.do_generate: print donotscan (or the exception ends the command)
GenPrint(p) ==
  /\ pc[p] \in { "done", "raised" }
  /\ prevRun' = IF pc[p] = "done"
                  THEN [valid |-> TRUE, out |-> out[p], date |-> today]
                  ELSE prevRun
  /\ pc' = [pc EXCEPT ![p] = "idle"]
  /\ snap' = [snap EXCEPT ![p] = << >>]
  /\ idx' = [idx EXCEPT ![p] = 0]
  /\ out' = [out EXCEPT ![p] = << >>]
  /\ sent' = [sent EXCEPT ![p] = << >>]
  /\ UNCHANGED << rules, today, last >>

(***************************************************************************)
(* The tool as the command line drives it: one call at a time, made by the *)
(* one caller there is (gen_donotscan call 1).                             *)
(***************************************************************************)
\* the ids a caller passes: every stored id and one that is not stored
IdArgs == 1 .. (Len(rules) + 1)

Next ==
  \/ Tick
  \/ \E r \in Patterns, e \in Expirations \cup {None}, perm \in BOOLEAN :
        Idle /\ AddRule(r, "T1", "App1", e, perm)
  \/ \E id \in IdArgs : Idle /\ Get(id)
  \/ \E a \in BOOLEAN, i \in BOOLEAN : Idle /\ List(a, i)
  \/ \E id \in IdArgs : Idle /\ Activate(id)
  \/ \E id \in IdArgs : Idle /\ Deactivate(id)
  \/ \E id \in IdArgs : Idle /\ TrueUp(id)
  \/ Idle /\ GenList(1)
  \/ \E p \in Passes : GenVisit(p)
  \/ \E p \in Passes : GenNotify(p)
  \/ \E p \in Passes : GenDeactivate(p)
  \/ \E p \in Passes : GenReturn(p)
  \/ \E p \in Passes : GenPrint(p)

Spec == Init /\ [][Next]_vars

(***************************************************************************)
(* Adding rules and searching them.                                        *)
(***************************************************************************)
FieldValues == [ticket |-> Tickets, application |-> Applications]

\* the keyword arguments a caller passes: any fields, each with a value
Criteria ==
  UNION { [F -> Tickets \cup Applications] : F \in SUBSET (DOMAIN FieldValues) }

NextSearch ==
  \/ \E r \in Patterns, t \in Tickets, a \in Applications :
        AddRule(r, t, a, None, FALSE)
  \/ \E args \in Criteria :
        (\A f \in DOMAIN args : args[f] \in FieldValues[f]) /\ Search(args)

SpecSearch == Init /\ [][NextSearch]_vars

(***************************************************************************)
(* The Rule objects driven through their own methods (reactivate,          *)
(* deactivate, true_up), next to the calls of class Rules on the same row. *)
(* The methods touch nothing but their own object, so one Rule is          *)
(* followed, its trail up to MaxTrail entries.                             *)
(***************************************************************************)
RecReactivate(id) ==
  /\ Len(rules[id].activity) < MaxTrail
  /\ rules' = [rules EXCEPT ![id] = RuleReactivate(@)]
  /\ last' = [NoCall EXCEPT !.op = "Rule.reactivate", !.id = id, !.outcome = "ok"]
  /\ prevRun' = Written
  /\ UNCHANGED << today, passVars >>

RecDeactivate(id) ==
  /\ Len(rules[id].activity) < MaxTrail
  /\ rules' = [rules EXCEPT ![id] = RuleDeactivate(@)]
  /\ last' = [NoCall EXCEPT !.op = "Rule.deactivate", !.id = id, !.outcome = "ok"]
  /\ prevRun' = Written
  /\ UNCHANGED << today, passVars >>

RecTrueUp(id, expiration) ==
  /\ Len(rules[id].activity) < MaxTrail
  /\ rules' = [rules EXCEPT ![id] = RuleTrueUp(@, expiration)]
  /\ last' = [NoCall EXCEPT !.op = "Rule.true_up", !.id = id, !.outcome = "ok",
                            !.expiration = expiration]
  /\ prevRun' = Written
  /\ UNCHANGED << today, passVars >>

NextRecord ==
  \/ Tick
  \/ \E e \in Expirations \cup {None}, perm \in BOOLEAN :
        Idle /\ rules = << >> /\ AddRule(<< "a" >>, "T1", "App1", e, perm)
  \/ \E id \in Ids : Idle /\ RecReactivate(id)
  \/ \E id \in Ids : Idle /\ RecDeactivate(id)
  \/ \E id \in Ids : Idle /\ RecTrueUp(id, TrueUpExpiry(today))
  \/ \E id \in IdArgs : Idle /\ Activate(id)
  \/ \E id \in IdArgs : Idle /\ Deactivate(id)
  \/ \E id \in IdArgs : Idle /\ TrueUp(id)
  \/ Idle /\ GenList(1)
  \/ \E p \in Passes : GenVisit(p)
  \/ \E p \in Passes : GenNotify(p)
  \/ \E p \in Passes : GenDeactivate(p)
  \/ \E p \in Passes : GenReturn(p)
  \/ \E p \in Passes : GenPrint(p)

SpecRecord == Init /\ [][NextRecord]_vars

(***************************************************************************)
(* Several callers at once: each call of class Rules is one transaction    *)
(* (its own session), and the transactions of a gen_donotscan call         *)
(* interleave freely with activate and trueup calls on the stored rules.   *)
(* (A rule added while the call runs is not in its list, so rules are      *)
(* added between the calls; overlapping gen_donotscan calls are followed   *)
(* separately below.)                                                      *)
(***************************************************************************)
NextConc ==
  \/ Tick
  \/ \E e \in Expirations \cup {None} :
        Idle /\ AddRule(<< "a" >>, "T1", "App1", e, FALSE)
  \/ \E id \in Ids : Activate(id)
  \/ \E id \in Ids : TrueUp(id)
  \/ Idle /\ GenList(1)
  \/ \E p \in Passes : GenVisit(p)
  \/ \E p \in Passes : GenNotify(p)
  \/ \E p \in Passes : GenDeactivate(p)
  \/ \E p \in Passes : GenReturn(p)
  \/ \E p \in Passes : GenPrint(p)

SpecConc == Init /\ [][NextConc]_vars

(***************************************************************************)
(* Overlapping gen_donotscan calls alone: rules are added, time passes,    *)
(* and nobody switches a rule back on, so a rule lapses at most once.      *)
(***************************************************************************)
NextOverlap ==
  \/ Tick
  \/ \E e \in Expirations \cup {None}, perm \in BOOLEAN :
        AddRule(<< "a" >>, "T1", "App1", e, perm)
  \/ \E p \in Passes : GenList(p)
  \/ \E p \in Passes : GenVisit(p)
  \/ \E p \in Passes : GenNotify(p)
  \/ \E p \in Passes : GenDeactivate(p)
  \/ \E p \in Passes : GenReturn(p)
  \/ \E p \in Passes : GenPrint(p)

SpecOverlap == Init /\ [][NextOverlap]_vars

(***************************************************************************)
(* Vocabulary of the properties.                                           *)
(***************************************************************************)
\* The lines of a text: the runs of characters each line break ends (and a
\* last run without a line break, if any).
RECURSIVE LinesFrom(_, _)
LinesFrom(s, cur) ==
  IF s = << >> THEN (IF cur = << >> THEN << >> ELSE << cur >>)
  ELSE IF Head(s) = "\n" THEN << cur >> \o LinesFrom(Tail(s), << >>)
  ELSE LinesFrom(Tail(s), Append(cur, Head(s)))

Lines(s) == LinesFrom(s, << >>)

Range(f) == { f[i] : i \in DOMAIN f }

Dec31(y) == MkDate(y, 12, 31)

\* expiration >= d, by day number
Live(r, d) == r.active /\ ToOrdinal(r.expiration) >= ToOrdinal(d)

\* active and expiration < d, by day number
Lapsed(r, d) == r.active /\ ToOrdinal(r.expiration) < ToOrdinal(d)

PatternsOf(list) == [i \in 1 .. Len(list) |-> list[i].rule]

Attempts(p, id) == { i \in 1 .. Len(sent[p]) : sent[p][i].id = id }

\* C1: when a gen_donotscan call returns, its result has exactly one line
\* for every stored rule that is active with expiration >= today (a rule
\* expiring today included), in list order, each line that rule's string,
\* and no other line; without such a rule the result is the empty string.
C1_ExactlyLiveRules ==
  \A p \in Passes :
    pc[p] = "done" =>
      LET live == SelectSeq(rules, LAMBDA r : Live(r, today))
      IN /\ Lines(out[p]) = PatternsOf(live)
         /\ Len(out[p]) = Len(live)
              + Cardinality({ k \in 1 .. Len(out[p]) : out[p][k] # "\n" })
         /\ (live = << >> => out[p] = << >>)

C1_Witness ==
  \E p \in Passes :
    /\ pc[p] = "done"
    /\ Len(snap[p]) = 2
    /\ \E i, j \in 1 .. 2 :
         /\ snap[p][i].active /\ snap[p][i].expiration = today
         /\ Lapsed(snap[p][j], today)
    /\ Len(Lines(out[p])) = 1

\* C2: when a call returns, every rule that was active with
\* expiration < today when the call listed the rules has contributed no
\* line to the result (its string is in the result only if a listed live
\* rule has the same string), has had exactly one notification attempted,
\* and is stored inactive.
C2_LapsedRuleHandled ==
  \A p \in Passes :
    pc[p] = "done" =>
      \A i \in 1 .. Len(snap[p]) :
        LET r == snap[p][i]
        IN Lapsed(r, today) =>
             /\ Len(Lines(out[p])) =
                  Cardinality({ k \in 1 .. Len(snap[p]) : Live(snap[p][k], today) })
             /\ (\A k \in 1 .. Len(snap[p]) :
                    Live(snap[p][k], today) => snap[p][k].rule # r.rule)
                  => r.rule \notin Range(Lines(out[p]))
             /\ Cardinality(Attempts(p, r.id)) = 1
             /\ rules[r.id].active = FALSE

C2_Witness ==
  \E p \in Passes :
    /\ pc[p] = "done"
    /\ \E i \in 1 .. Len(snap[p]) :
         /\ Lapsed(snap[p][i], today)
         /\ ~rules[snap[p][i].id].active
         /\ Cardinality(Attempts(p, snap[p][i].id)) = 1
    /\ out[p] # << >>

\* C3: when a call returns, every rule that was inactive (whatever its
\* expiration) or active with expiration >= today when the call listed the
\* rules is stored exactly as it was listed (flag, expiration, activity
\* trail and all), and no notification was attempted for it.
C3_OthersUntouched ==
  \A p \in Passes :
    pc[p] = "done" =>
      \A i \in 1 .. Len(snap[p]) :
        LET r == snap[p][i]
        IN (~r.active \/ Live(r, today)) =>
             /\ rules[r.id] = r
             /\ Attempts(p, r.id) = {}

C3_Witness ==
  \E p \in Passes :
    /\ pc[p] = "done"
    /\ \E i, j \in 1 .. Len(snap[p]) :
         /\ ~snap[p][i].active /\ ToOrdinal(snap[p][i].expiration) < ToOrdinal(today)
         /\ snap[p][j].active /\ snap[p][j].expiration = today
         /\ rules[snap[p][i].id] = snap[p][i]
         /\ rules[snap[p][j].id] = snap[p][j]

\* C4: when a call returns that directly follows another finished call on
\* the same date (no other engine call in between), its result is the same
\* string as the first call's, it has attempted no notification, and every
\* rule is stored as the call found it.
C4_SecondRunSame ==
  \A p \in Passes :
    (pc[p] = "done" /\ prevRun.valid /\ prevRun.date = today) =>
      /\ out[p] = prevRun.out
      /\ sent[p] = << >>
      /\ rules = snap[p]

C4_Witness ==
  \E p \in Passes :
    /\ pc[p] = "done" /\ prevRun.valid /\ prevRun.date = today
    /\ prevRun.out # << >>
    /\ \E i \in Ids : ~rules[i].active /\ ToOrdinal(rules[i].expiration) < ToOrdinal(today)
    /\ sent[p] = << >>

\* C8: right after a rule is added, its expiration is the explicit value
\* when one was given; otherwise it is the creation date plus 14 days
\* (by day number) for a temporary rule and December 31 of the creation
\* year for a permanent one.
C8_DefaultExpiration ==
  last.op = "add" =>
    LET r == rules[last.id]
    IN IF last.expiration # None
         THEN r.expiration = last.expiration
       ELSE IF r.permanent
         THEN r.expiration = Dec31(last.date.year)
       ELSE /\ ToOrdinal(r.expiration) = ToOrdinal(last.date) + 14
            /\ r.expiration.month \in 1 .. 12
            /\ r.expiration.day \in 1 .. DaysInMonth(r.expiration.year, r.expiration.month)

C8_Witness ==
  /\ last.op = "add" /\ last.expiration = None
  /\ ~rules[last.id].permanent
  /\ last.date = MkDate(2024, 2, 20)
  /\ rules[last.id].expiration = MkDate(2024, 3, 5)

\* C9: a gen_donotscan call never ends by an exception, and when it returns
\* every rule it attempted a notification for is stored inactive, whatever
\* the outcome of the send.
C9_SendFailureSwallowed ==
  \A p \in Passes :
    /\ pc[p] # "raised"
    /\ pc[p] = "done" =>
         /\ \A i \in 1 .. Len(sent[p]) :
              /\ sent[p][i].status \in { "sent", "error" }
              /\ rules[sent[p][i].id].active = FALSE
         /\ \A i \in 1 .. Len(snap[p]) :
              Lapsed(snap[p][i], today) =>
                /\ Attempts(p, snap[p][i].id) # {}
                /\ rules[snap[p][i].id].active = FALSE

C9_Witness ==
  \E p \in Passes :
    /\ pc[p] = "done"
    /\ \E i \in 1 .. Len(sent[p]) :
         /\ sent[p][i].status = "error"
         /\ ~rules[sent[p][i].id].active
         /\ Lapsed(snap[p][sent[p][i].id], today)

LastEvent(r) == r.activity[Len(r.activity)].event

Recorded(id, event) ==
  /\ Len(rules'[id].activity) = Len(rules[id].activity) + 1
  /\ LastEvent(rules'[id]) = event

\* C5: every successful AddRule / Activate(id) / Deactivate(id) /
\* TrueUp(id) call, and every deactivation of a lapsed rule inside
\* gen_donotscan, commits in the same step exactly one more entry of the
\* affected rule's activity trail, of event Created / Re-Enabled /
\* Disabled / Modified respectively.
C5_ActivityRecorded ==
  [][ /\ \A id \in Ids :
           /\ (Activate(id) /\ last'.outcome = "ok") => Recorded(id, "Re-Enabled")
           /\ (Deactivate(id) /\ last'.outcome = "ok") => Recorded(id, "Disabled")
           /\ (TrueUp(id) /\ last'.outcome = "ok") => Recorded(id, "Modified")
           /\ (\E p \in Passes : GenDeactivate(p) /\ snap[p][idx[p]].id = id)
                => Recorded(id, "Disabled")
      /\ (\E r \in Patterns, e \in Expirations \cup {None}, perm \in BOOLEAN :
            AddRule(r, "T1", "App1", e, perm))
           => /\ Len(rules'[Len(rules')].activity) = 1
              /\ LastEvent(rules'[Len(rules')]) = "Created" ]_vars

\* C6: after TrueUp(id) on an existing rule, that rule's expiration is
\* December 31 of the current year when today's month is <= 6, and
\* December 31 of the following year otherwise.
C6_TrueUpExpiration ==
  (last.op = "trueup" /\ last.id \in Ids) =>
    rules[last.id].expiration =
      (IF today.month <= 6 THEN Dec31(today.year) ELSE Dec31(today.year + 1))

\* C7: list(active, inactive) returns exactly the rules whose active flag
\* is in the requested set: active rules when `active` is asked for,
\* inactive rules when `inactive` is asked for, none when neither is.
C7_ListByFlag ==
  last.op = "list" =>
    last.result = { id \in Ids : \/ rules[id].active /\ last.active
                                 \/ ~rules[id].active /\ last.inactive }

\* C10: get, activate, deactivate and trueup called with an id no stored
\* rule has end in a NotFoundError.
C10_NotFound ==
  (last.op \in { "get", "activate", "deactivate", "trueup" } /\ last.id \notin Ids) =>
    last.outcome = "NotFoundError"

\* C11: search with one or more field/value pairs returns exactly the
\* rules that equal every given pair.
C11_SearchAnd ==
  (last.op = "search" /\ DOMAIN last.args # { }) =>
    /\ last.outcome = "ok"
    /\ last.result = { id \in Ids : \A f \in DOMAIN last.args :
                                      rules[id][f] = last.args[f] }

IsPrefix(a, b) == Len(a) <= Len(b) /\ SubSeq(b, 1, Len(a)) = a

Events(r) == [i \in 1 .. Len(r.activity) |-> r.activity[i].event]

\* C12: Rule.reactivate always leaves the rule active and adds one
\* Re-Enabled entry to its trail, also when the rule was active already;
\* Rule.deactivate always leaves it inactive and adds one Disabled entry,
\* also when it was inactive already.
C12_AlwaysAppend ==
  [][ \A id \in Ids :
        /\ RecReactivate(id) =>
             /\ rules'[id].active = TRUE
             /\ Events(rules'[id]) = Append(Events(rules[id]), "Re-Enabled")
        /\ RecDeactivate(id) =>
             /\ rules'[id].active = FALSE
             /\ Events(rules'[id]) = Append(Events(rules[id]), "Disabled") ]_vars

C12_Witness ==
  \E id \in Ids :
    /\ Events(rules[id]) = << "Created", "Re-Enabled", "Disabled", "Disabled" >>
    /\ ~rules[id].active

SameButRenewal(r, q) ==
  /\ q.active = r.active
  /\ q.id = r.id /\ q.rule = r.rule /\ q.permanent = r.permanent
  /\ q.ticket = r.ticket /\ q.application = r.application
  /\ IsPrefix(r.activity, q.activity)

\* C13: a true-up (Rule.true_up, Rules.trueup) leaves the rule's active
\* flag and every field but expiration and trail as they were; a rule that
\* is inactive becomes active only by Rules.activate or Rule.reactivate;
\* and a gen_donotscan call prints no line for a rule it listed inactive,
\* renewed or not.
C13_TrueUpKeepsFlag ==
  /\ [][ \A id \in Ids :
           /\ (TrueUp(id) \/ RecTrueUp(id, TrueUpExpiry(today)))
                => SameButRenewal(rules[id], rules'[id])
           /\ (~rules[id].active /\ rules'[id].active)
                => (Activate(id) \/ RecReactivate(id)) ]_vars
  /\ [](\A p \in Passes :
          pc[p] = "done" =>
            Len(Lines(out[p])) =
              Cardinality({ i \in 1 .. Len(snap[p]) : Live(snap[p][i], today) }))

C13_Witness ==
  \E p \in Passes :
    /\ pc[p] = "done"
    /\ Len(snap[p]) = 1
    /\ ~snap[p][1].active
    /\ LastEvent(snap[p][1]) = "Modified"
    /\ "Disabled" \in Range(Events(snap[p][1]))
    /\ ToOrdinal(snap[p][1].expiration) >= ToOrdinal(today)
    /\ out[p] = << >>
    /\ rules[1] = snap[p][1]

\* C14: no stored rule has an empty rule string.
C14_NoEmptyPattern ==
  \A id \in Ids : rules[id].rule # << >>

\* C15: every stored rule has an expiration that is a date, never None.
C15_ExpirationSet ==
  \A id \in Ids :
    /\ rules[id].expiration # None
    /\ rules[id].expiration.month \in 1 .. 12
    /\ rules[id].expiration.day \in
         1 .. DaysInMonth(rules[id].expiration.year, rules[id].expiration.month)

C15_Witness ==
  /\ last.op = "trueup" /\ last.id \in Ids
  /\ \E i, j \in Ids :
       /\ rules[i].permanent /\ rules[i].expiration \notin Expirations
       /\ ~rules[j].permanent /\ rules[j].expiration \notin Expirations
       /\ ~rules[j].active

\* C16: no step removes, changes or reorders an entry of a rule's activity
\* trail (the trail before the step is a prefix of the trail after it),
\* and the first entry of every trail is the Created entry.
C16_TrailAppendOnly ==
  /\ [][ \A id \in Ids : IsPrefix(rules[id].activity, rules'[id].activity) ]_vars
  /\ [](\A id \in Ids : /\ rules[id].activity # << >>
                        /\ rules[id].activity[1] = Activity("Created", None))

C16_Witness ==
  \E id \in Ids :
    /\ Len(rules[id].activity) = MaxTrail
    /\ { "Re-Enabled", "Disabled", "Modified" } \subseteq Range(Events(rules[id]))

\* C17: when a gen_donotscan call returns, every permanent rule it listed
\* active and past its expiration has contributed no line, has had one
\* notification attempted and is stored inactive, like a temporary rule.
C17_PermanentLapses ==
  \A p \in Passes :
    pc[p] = "done" =>
      /\ \A i \in 1 .. Len(snap[p]) :
           (snap[p][i].permanent /\ Lapsed(snap[p][i], today)) =>
             /\ Cardinality(Attempts(p, snap[p][i].id)) = 1
             /\ ~rules[snap[p][i].id].active
      /\ Len(Lines(out[p])) <=
           Cardinality({ i \in 1 .. Len(snap[p]) :
                           ~(snap[p][i].permanent /\ Lapsed(snap[p][i], today)) })

C17_Witness ==
  \E p \in Passes :
    /\ pc[p] = "done"
    /\ \E i \in 1 .. Len(snap[p]) :
         /\ snap[p][i].permanent /\ snap[p][i].active
         /\ snap[p][i].expiration = Dec31(2023)
         /\ today = MkDate(2024, 2, 20)
         /\ ~rules[snap[p][i].id].active
         /\ Cardinality(Attempts(p, snap[p][i].id)) = 1

\* the events that tell the state of the flag, in trail order
FlagEvents(r) ==
  SelectSeq(Events(r), LAMBDA e : e \in { "Created", "Re-Enabled", "Disabled" })

ModifiedInfos(r) ==
  SelectSeq(r.activity, LAMBDA a : a.event = "Modified")

\* C18: every stored rule is inactive exactly when the latest of its
\* Created / Re-Enabled / Disabled entries is Disabled, and once it has a
\* Modified entry its expiration is the date the latest one records.
C18_FlagAgreesWithTrail ==
  \A id \in Ids :
    LET fe == FlagEvents(rules[id])
        mi == ModifiedInfos(rules[id])
    IN /\ fe # << >>
       /\ ~rules[id].active <=> (fe[Len(fe)] = "Disabled")
       /\ mi # << >> =>
            mi[Len(mi)].info =
              << "Expiration set to " >> \o IsoFormat(rules[id].expiration)

C20_OneNotification ==
  \A id \in Ids :
    /\ Cardinality(UNION { { << p, i >> : i \in Attempts(p, id) } :
                             p \in Passes }) <= 1
    /\ Cardinality({ i \in 1 .. Len(rules[id].activity) :
                       rules[id].activity[i].event = "Disabled" }) <= 1
====
